---- MODULE Spec2Model ----
(***************************************************************************)
(* Model of the self-correcting coding agent.                              *)
(*                                                                         *)
(*   src/agent.py          WorkflowState, CodingAgent, CodeExecutorAgent,  *)
(*                         TestingAgent, WorkflowManager (the LangGraph    *)
(*                         graph code -> execute -> test -> code | END)    *)
(*   src/execution_mcp.py  MCPCodeExecutor (execute_code and the           *)
(*                         per-language compile / run steps)               *)
(*                                                                         *)
(* Spec      one run of WorkflowManager.run_workflow                       *)
(* FairSpec  the same run, every external call returning                   *)
(* ExecSpec  calls of MCPCodeExecutor.execute_code and of validate_syntax,  *)
(*           step by step, for two callers                                 *)
(* ClassifySpec  analyze_execution_result applied to a text                *)
(* ToolsSpec     interleaved calls of get_interpreter_tools on one agent   *)
(***************************************************************************)
EXTENDS Integers, Sequences, FiniteSets, TLC

VARIABLES
    \* ---- WorkflowState (src/agent.py:20-27) ----
    user_message,       \* the request
    messages,           \* the log, a sequence of entries
    current_state,      \* "code" | "execute" | "test" | "end"
    data,               \* the result bag: a function from the keys present
    retry_count,
    max_retries,
    \* ---- the graph's position (src/agent.py:278-301) ----
    node,               \* node the graph runs next: "code" | "execute" | "test" | "END"
    \* ---- CodeExecutorAgent fields (src/agent.py:98-100) ----
    tools_cache,        \* "None", or the cached tool list: "tools" | "empty"
    connection_attempts,
    \* ---- requests in flight to the external services ----
    prompt,             \* last prompt sent to the text-generation service
    execution_request,  \* last code sent to the execution agent, or NoRequest
    server_contacts,    \* session negotiations the execution server has received
    \* ---- MCPCodeExecutor.execute_code (src/execution_mcp.py) ----
    call,               \* per caller: the call's position, inputs, locals and result
    workspaces,         \* the scratch directories that exist, each with its files
    calls_done,         \* number of execute_code and validate_syntax calls returned
    \* ---- a call of analyze_execution_result (src/agent.py:102-146) ----
    text_in,            \* the response_content argument
    verdict,            \* what the call returned, NoVerdict before it returns
    \* ---- callers of get_interpreter_tools (src/agent.py:148-173) ----
    getter,             \* per caller: its position and what it returned
    \* ---- arguments fixed before the calls are made ----
    batch,              \* a call of batch_execute: its list, loop index and results
    spelling            \* per caller: the language identifier it passes (AliasSpec)

wfvars == <<user_message, messages, current_state, data, retry_count, max_retries,
            node, tools_cache, connection_attempts, prompt, execution_request,
            server_contacts>>

exvars == <<call, workspaces, calls_done>>

clvars == <<text_in, verdict>>

tlvars == <<getter>>

scvars == <<batch, spelling>>

vars == <<wfvars, exvars, clvars, tlvars, scvars>>

(***************************************************************************)
(* Bounds of the model.                                                    *)
(***************************************************************************)
\* max_retries ranges over 1..MaxRetriesBound (WorkflowState's default is 3).
MaxRetriesBound == 3

\* Number of execute_code calls made one after another under ExecSpec.
MaxCalls == 2

\* Number of phrases in a text handed to analyze_execution_result under
\* ClassifySpec.
MaxPhrases == 3

\* Length of the list handed to batch_execute under BatchSpec.
MaxSnippets == 2

\* Value of _connection_attempts up to which get_interpreter_tools is called
\* without a cached handle under ToolsSpec.
MaxAttemptsMade == 5

(***************************************************************************)
(* Python dict operations on the result bag.                               *)
(***************************************************************************)
Get(d, k, default) == IF k \in DOMAIN d THEN d[k] ELSE default

Put(d, k, v) == [x \in (DOMAIN d) \cup {k} |-> IF x = k THEN v ELSE d[x]]

Pop(d, k) == [x \in (DOMAIN d) \ {k} |-> d[x]]

EmptyDict == [x \in {} |-> {}]

(***************************************************************************)
(* Texts.  A text is the set of phrases it contains; Fragments(p) is the   *)
(* set of strings of the classifier's lists that occur in the lower-cased  *)
(* phrase p, which is what Python's `token in content` computes.           *)
(***************************************************************************)
Fragments(p) ==
    CASE p = "Traceback (most recent call last)" -> {"traceback (most recent call last)"}
      [] p = "SyntaxError:"          -> {"syntaxerror:", "error"}
      [] p = "execution failed"      -> {"execution failed"}
      [] p = "unable to execute"     -> {"unable to execute", "unable"}
      [] p = "internal error"        -> {"error"}
      [] p = "internal errorfail"    -> {"internal errorfail", "error"}
      [] p = "failure"               -> {}
      [] p = "exception"             -> {"exception"}
      [] p = "executed successfully" -> {"executed successfully", "success"}
      [] p = "Success"               -> {"success"}
      [] p = "passed"                -> {"passed"}
      [] p = "sorry"                 -> {"sorry"}
      [] p = "cannot"                -> {"cannot"}
      [] p = "unable to help"        -> {"unable"}
      [] OTHER                       -> {}

Occurs(token, text) == \E p \in text : token \in Fragments(p)

\* src/agent.py:104-126.  'internal error' 'fail' has no comma between the two
\* literals: Python concatenates them into the one entry 'internal errorfail'.
definite_errors ==
    { "traceback (most recent call last)", "syntaxerror:", "nameerror:",
      "indentationerror:", "typeerror:", "valueerror:", "attributeerror:",
      "importerror:", "modulenotfounderror:", "keyerror:", "indexerror:",
      "zerodivisionerror:", "execution failed", "error occurred",
      "failed to execute", "unable to execute", "internal errorfail",
      "error", "exception" }

\* src/agent.py:128-135
success_indicators ==
    { "success", "passed", "executed successfully", "completed successfully",
      "execution completed", "ran successfully" }

\* analyze_execution_result looking for the success phrases first.
analyze_execution_result_SuccessFirst(response_content) ==
    IF \E s \in success_indicators : Occurs(s, response_content) THEN TRUE
    ELSE IF \E e \in definite_errors : Occurs(e, response_content) THEN FALSE
    ELSE IF \/ Occurs("sorry", response_content)
            \/ Occurs("unable", response_content)
            \/ Occurs("cannot", response_content) THEN FALSE
    ELSE TRUE

\* analyze_execution_result looking for the refusal phrases before the success
\* phrases.
analyze_execution_result_RefusalFirst(response_content) ==
    IF \E e \in definite_errors : Occurs(e, response_content) THEN FALSE
    ELSE IF \/ Occurs("sorry", response_content)
            \/ Occurs("unable", response_content)
            \/ Occurs("cannot", response_content) THEN FALSE
    ELSE IF \E s \in success_indicators : Occurs(s, response_content) THEN TRUE
    ELSE TRUE

\* src/agent.py:102-146: TRUE for success, FALSE for failure.
analyze_execution_result(response_content) ==
    IF \E e \in definite_errors : Occurs(e, response_content) THEN FALSE
    ELSE IF \E s \in success_indicators : Occurs(s, response_content) THEN TRUE
    ELSE IF \/ Occurs("sorry", response_content)
            \/ Occurs("unable", response_content)
            \/ Occurs("cannot", response_content) THEN FALSE
    ELSE TRUE

\* The phrases a response is made of, and the responses of at most MaxPhrases
\* phrases.
Phrases ==
    { "Traceback (most recent call last)", "SyntaxError:", "execution failed",
      "unable to execute", "internal error", "internal errorfail", "failure",
      "exception", "executed successfully", "Success", "passed", "sorry",
      "cannot", "unable to help", "hello" }

Texts == {t \in SUBSET Phrases : Cardinality(t) <= MaxPhrases}

\* What a call of analyze_execution_result returned: the tuple
\* (success, response_content).
NoVerdict == [returned |-> FALSE, success |-> FALSE, content |-> {}]

\* A call of analyze_execution_result(text_in).
analyze ==
    /\ ~verdict.returned
    /\ verdict' = [returned |-> TRUE,
                   success  |-> analyze_execution_result(text_in),
                   content  |-> text_in]
    /\ UNCHANGED <<text_in, wfvars, exvars, tlvars, scvars>>

(***************************************************************************)
(* Inputs of one workflow run.                                             *)
(***************************************************************************)
UserMessages == {"factorial task"}

\* Outcomes of chain.ainvoke (src/agent.py:69-86).
LLMOutcomes == {"ok", "error"}

\* Outcomes of the session negotiation (src/agent.py:157-173).
ConnectOutcomes == {"tools", "empty", "timeout", "error"}

\* Final messages the execution agent may answer with.
ResponseTexts ==
    { {"Success", "hello"},
      {"hello"},
      {"Traceback (most recent call last)", "Success"},
      {"sorry", "cannot"},
      {"failure"},
      {} }

\* Outcomes of agent.ainvoke under wait_for (src/agent.py:194-233).
AgentOutcomes ==
    [kind : {"response"}, text : ResponseTexts]
        \cup {[kind |-> "timeout", text |-> {}], [kind |-> "exception", text |-> {}]}

\* A string of the program: a fixed part and the text inserted in it.
Str(fixed, inserted) == <<fixed, inserted>>

UnknownError == Str("Unknown error", {})

\* The code generated by the n-th call of the text-generation service.
Code(n) == <<"code", n>>

NoRequest == <<"none", 0>>

NoErrorContext == [has_error |-> FALSE, error |-> Str("", {})]

(***************************************************************************)
(* Program constants.                                                      *)
(***************************************************************************)
\* retry_count of run_workflow's initial state (src/agent.py:320)
InitialRetryCount == 0

\* CodeExecutorAgent._max_connection_attempts (src/agent.py:100)
MaxConnectionAttempts == 3

(***************************************************************************)
(* BaseAgent.add_message (src/agent.py:40-44): the entry is prefixed with  *)
(* the agent's name and appended.  An entry keeps the fixed part of the    *)
(* message.                                                                *)
(***************************************************************************)
\* add_message putting the entry in front of the log.
add_message_Prepend(log, name, msg) == <<[agent |-> name, text |-> msg]>> \o log

add_message(log, name, msg) == Append(log, [agent |-> name, text |-> msg])

\* Number of entries of the log written by an agent.
RECURSIVE CountBy(_, _)
CountBy(log, name) ==
    IF log = <<>> THEN 0
    ELSE (IF log[Len(log)].agent = name THEN 1 ELSE 0)
            + CountBy(SubSeq(log, 1, Len(log) - 1), name)

(***************************************************************************)
(* CodingAgent.process (src/agent.py:51-91)                                *)
(***************************************************************************)
\* src/agent.py:53: the prompt carries the previous error when this holds.
IsRetry(rc) == rc > 1

\* src/agent.py:52-55
error_context_of(rc, d) ==
    IF IsRetry(rc)
    THEN [has_error |-> TRUE, error |-> Get(d, "error_message", UnknownError)]
    ELSE NoErrorContext

\* StaticEdge without the edge execute -> test.
StaticEdge_NoTestEdge(n) ==
    CASE n = "START"   -> "code"
      [] n = "code"    -> "execute"
      [] n = "execute" -> "nowhere"

\* The static edges of the graph (src/agent.py:285-287).
StaticEdge(n) ==
    CASE n = "START"   -> "code"
      [] n = "code"    -> "execute"
      [] n = "execute" -> "test"

\* decide_next_step sending every state back to generation.
decide_next_step_AlwaysCode(cs) == "code"

\* src/agent.py:289-290
decide_next_step(cs) == IF cs = "code" THEN "code" ELSE "end"

\* The conditional edge out of 'test' (src/agent.py:292-299).
ConditionalEdge(cs) == IF decide_next_step(cs) = "code" THEN "code" ELSE "END"

\* src/agent.py:85: the message of the exception the service raised.
GenerationError == Str("Code generation error: ", {"service unavailable"})

\* _code_node: the agent, then the edge code -> execute.
CodingAgent_process ==
    /\ node = "code"
    /\ \E outcome \in LLMOutcomes :
          /\ prompt' = [query |-> user_message,
                        error_context |-> error_context_of(retry_count, data)]
          /\ IF outcome = "ok"
             THEN /\ data' = Put(data, "code", Code(CountBy(messages, "CodingAgent") + 1))
                  /\ messages' = add_message(messages, "CodingAgent", "Code generated")
                  /\ current_state' = "execute"
             ELSE /\ messages' = add_message(messages, "CodingAgent", "Code generation failed")
                  /\ data' = Put(Put(data, "execution_status", "failure"), "error_message",
                                 GenerationError)
                  /\ current_state' = "test"
    /\ node' = StaticEdge("code")
    /\ UNCHANGED <<user_message, retry_count, max_retries, tools_cache,
                   connection_attempts, execution_request, server_contacts,
                   exvars, clvars, tlvars, scvars>>

(***************************************************************************)
(* CodeExecutorAgent (src/agent.py:94-236)                                 *)
(***************************************************************************)
\* AttemptsExceeded allowing one attempt more.
AttemptsExceeded_OneMore(attempts) == attempts > MaxConnectionAttempts + 1

\* src/agent.py:153
AttemptsExceeded(attempts) == attempts > MaxConnectionAttempts

\* src/agent.py:148-173.  conn is the outcome of the negotiation, should it
\* be attempted.  An empty tool list is what `not tools` tests for.
get_interpreter_tools(cache, attempts, conn) ==
    IF cache # "None"
    THEN [tools |-> cache, cache |-> cache, attempts |-> attempts, contacted |-> FALSE]
    ELSE IF AttemptsExceeded(attempts + 1)
    THEN [tools |-> "empty", cache |-> cache, attempts |-> attempts + 1,
          contacted |-> FALSE]
    ELSE IF conn \in {"tools", "empty"}
    THEN [tools |-> conn, cache |-> conn, attempts |-> attempts + 1, contacted |-> TRUE]
    ELSE [tools |-> "empty", cache |-> cache, attempts |-> attempts + 1,
          contacted |-> TRUE]

\* The coroutines that may be inside get_interpreter_tools of one agent: the
\* CodeRunner invocations of runs started on the same WorkflowManager.
Runners == {"r1", "r2", "r3"}

IdleGetter == [pc |-> "idle", tools |-> "None"]

\* get_interpreter_tools up to its first await (src/agent.py:149-161): the
\* cache test, the attempt counter and its limit, then the connection to the
\* server is opened.
get_interpreter_tools_begin(c) ==
    /\ getter[c].pc \in {"idle", "returned"}
    /\ tools_cache = "None" => connection_attempts < MaxAttemptsMade
    /\ IF tools_cache # "None"
       THEN /\ getter' = [getter EXCEPT ![c] = [pc |-> "returned", tools |-> tools_cache]]
            /\ UNCHANGED <<connection_attempts, server_contacts>>
       ELSE /\ connection_attempts' = connection_attempts + 1
            /\ IF AttemptsExceeded(connection_attempts + 1)
               THEN /\ getter' = [getter EXCEPT ![c] =
                                    [pc |-> "returned", tools |-> "empty"]]
                    /\ UNCHANGED server_contacts
               ELSE /\ getter' = [getter EXCEPT ![c] =
                                    [pc |-> "negotiating", tools |-> "None"]]
                    /\ server_contacts' = server_contacts + 1
    /\ UNCHANGED <<user_message, messages, current_state, data, retry_count,
                   max_retries, node, tools_cache, prompt, execution_request,
                   exvars, clvars, scvars>>

\* The awaits of get_interpreter_tools come to an end (src/agent.py:161-173):
\* the tools are loaded and cached, or the negotiation timed out or failed.
get_interpreter_tools_end(c) ==
    /\ getter[c].pc = "negotiating"
    /\ \E conn \in ConnectOutcomes :
          IF conn \in {"tools", "empty"}
          THEN /\ tools_cache' = conn
               /\ getter' = [getter EXCEPT ![c] = [pc |-> "returned", tools |-> conn]]
          ELSE /\ getter' = [getter EXCEPT ![c] = [pc |-> "returned", tools |-> "empty"]]
               /\ UNCHANGED tools_cache
    /\ UNCHANGED <<user_message, messages, current_state, data, retry_count,
                   max_retries, node, connection_attempts, prompt, execution_request,
                   server_contacts, exvars, clvars, scvars>>

\* SystemError recording the status without an error message.
SystemError_NoErrorMessage(d, log, e) ==
    [data |-> Put(d, "execution_status", "failure"),
     messages |-> add_message(log, "CodeExecutorAgent", "Execution system error")]

\* src/agent.py:229-233: the outer handler.
SystemError(d, log, e) ==
    [data |-> Put(Put(d, "execution_status", "failure"), "error_message",
                  Str("Execution system error: ", {e})),
     messages |-> add_message(log, "CodeExecutorAgent", "Execution system error")]

\* Executed leaving the result bag as it is after a timeout.
Executed_TimeoutUnrecorded(d, log, out) ==
    IF out.kind = "timeout"
    THEN [data |-> d,
          messages |-> add_message(log, "CodeExecutorAgent", "Execution failed: Timeout")]
    ELSE IF out.kind = "exception"
    THEN SystemError(d, log, "agent error")
    ELSE IF analyze_execution_result(out.text)
    THEN [data |-> Pop(Put(Put(d, "execution_status", "success"), "result",
                           Str("", out.text)), "error_message"),
          messages |-> add_message(log, "CodeExecutorAgent", "Execution completed")]
    ELSE [data |-> Put(Put(d, "execution_status", "failure"), "error_message",
                       Str("", out.text)),
          messages |-> add_message(log, "CodeExecutorAgent", "Execution completed")]

\* Executed keeping the error message of an earlier attempt on success.
Executed_KeepsErrorMessage(d, log, out) ==
    IF out.kind = "timeout"
    THEN [data |-> Put(Put(d, "execution_status", "failure"), "error_message",
                       Str("Code execution timed out after 45 seconds", {})),
          messages |-> add_message(log, "CodeExecutorAgent", "Execution failed: Timeout")]
    ELSE IF out.kind = "exception"
    THEN SystemError(d, log, "agent error")
    ELSE IF analyze_execution_result(out.text)
    THEN [data |-> Put(Put(d, "execution_status", "success"), "result",
                       Str("", out.text)),
          messages |-> add_message(log, "CodeExecutorAgent", "Execution completed")]
    ELSE [data |-> Put(Put(d, "execution_status", "failure"), "error_message",
                       Str("", out.text)),
          messages |-> add_message(log, "CodeExecutorAgent", "Execution completed")]

\* src/agent.py:194-227: the call of the execution agent and its classification.
Executed(d, log, out) ==
    IF out.kind = "timeout"
    THEN [data |-> Put(Put(d, "execution_status", "failure"), "error_message",
                       Str("Code execution timed out after 45 seconds", {})),
          messages |-> add_message(log, "CodeExecutorAgent", "Execution failed: Timeout")]
    ELSE IF out.kind = "exception"
    THEN SystemError(d, log, "agent error")
    ELSE IF analyze_execution_result(out.text)
    THEN [data |-> Pop(Put(Put(d, "execution_status", "success"), "result",
                           Str("", out.text)), "error_message"),
          messages |-> add_message(log, "CodeExecutorAgent", "Execution completed")]
    ELSE [data |-> Put(Put(d, "execution_status", "failure"), "error_message",
                       Str("", out.text)),
          messages |-> add_message(log, "CodeExecutorAgent", "Execution completed")]

\* _execute_node: the agent, then the edge execute -> test.
CodeExecutorAgent_process ==
    /\ node = "execute"
    /\ \E conn \in ConnectOutcomes, out \in AgentOutcomes :
          LET t == get_interpreter_tools(tools_cache, connection_attempts, conn) IN
          /\ tools_cache' = t.cache
          /\ connection_attempts' = t.attempts
          /\ server_contacts' = server_contacts + (IF t.contacted THEN 1 ELSE 0)
          /\ IF t.tools = "empty"
             THEN /\ data' = Put(Put(data, "execution_status", "failure"), "error_message",
                      Str("Could not connect to code execution server after multiple attempts", {}))
                  /\ messages' = add_message(messages, "CodeExecutorAgent",
                                             "Error: Could not connect to MCP server")
                  /\ UNCHANGED execution_request
             ELSE IF "code" \notin DOMAIN data
             THEN \* state.data['code'] raises KeyError (src/agent.py:188)
                  /\ data' = SystemError(data, messages, "'code'").data
                  /\ messages' = SystemError(data, messages, "'code'").messages
                  /\ UNCHANGED execution_request
             ELSE /\ execution_request' = data["code"]
                  /\ data' = Executed(data, messages, out).data
                  /\ messages' = Executed(data, messages, out).messages
    /\ current_state' = "test"
    /\ node' = StaticEdge("execute")
    /\ UNCHANGED <<user_message, retry_count, max_retries, prompt, exvars, clvars,
                   tlvars, scvars>>

(***************************************************************************)
(* TestingAgent.process (src/agent.py:244-269)                             *)
(***************************************************************************)
\* IsFailure taking every status for a failure.
IsFailure_Always(execution_status) == TRUE

\* src/agent.py:251
IsFailure(execution_status) == execution_status = "failure"

\* Exhausted giving up at the first failure.
Exhausted_AtFirstFailure(rc, mr) == rc >= 1

\* src/agent.py:254
Exhausted(rc, mr) == rc > mr

\* _test_node: the agent, then the conditional edge.
TestingAgent_process ==
    /\ node = "test"
    /\ LET execution_status == Get(data, "execution_status", "failure") IN
       IF IsFailure(execution_status)
       THEN /\ retry_count' = retry_count + 1
            /\ IF Exhausted(retry_count + 1, max_retries)
               THEN /\ messages' = add_message(messages, "TestingAgent", "Workflow failed")
                    /\ current_state' = "end"
               ELSE /\ messages' = add_message(messages, "TestingAgent", "Retry")
                    /\ current_state' = "code"
       ELSE /\ messages' = add_message(messages, "TestingAgent",
                                       "Workflow completed successfully")
            /\ current_state' = "end"
            /\ UNCHANGED retry_count
    /\ node' = ConditionalEdge(current_state')
    /\ UNCHANGED <<user_message, data, max_retries, tools_cache, connection_attempts,
                   prompt, execution_request, server_contacts, exvars, clvars, tlvars,
                   scvars>>

(***************************************************************************)
(* WorkflowManager.run_workflow (src/agent.py:312-329): the initial state. *)
(* max_retries is not passed and takes the dataclass default; the model    *)
(* lets it range over 1..MaxRetriesBound.                                  *)
(***************************************************************************)
WorkflowInit ==
    /\ user_message \in UserMessages
    /\ messages = <<>>
    /\ current_state = "code"
    /\ data = EmptyDict
    /\ retry_count = InitialRetryCount
    /\ max_retries \in 1..MaxRetriesBound
    /\ node = StaticEdge("START")
    /\ tools_cache = "None"
    /\ connection_attempts = 0
    /\ prompt = [query |-> "", error_context |-> NoErrorContext]
    /\ execution_request = NoRequest
    /\ server_contacts = 0

(***************************************************************************)
(* MCPCodeExecutor (src/execution_mcp.py:30-308)                           *)
(*                                                                         *)
(* A call of execute_code goes through up to three steps: it enters        *)
(* (validates the language, creates its scratch directory and writes the   *)
(* source file), compiles (java, cpp) and runs.  The step that ends the    *)
(* call leaves the `with tempfile.TemporaryDirectory()` block, which       *)
(* deletes the directory, and builds the result.                           *)
(***************************************************************************)
\* The threads that may be inside execute_code.
Callers == {"a", "b"}

\* language arguments
Languages == {"python", "Java", "javascript", "cpp", "C++", "ruby"}

\* source arguments: an identity and the class declaration the text holds
Sources ==
    { [id |-> "src1", decl |-> "none"],
      [id |-> "src2", decl |-> "public class Foo"] }

\* input_data arguments
Inputs == {"", "7"}

\* Names tempfile may give a scratch directory.
DirNames == {"tmp1", "tmp2"}

\* How a subprocess.run call may end: the exit code, TimeoutExpired, or
\* FileNotFoundError when the toolchain is not installed.
SubprocessOutcomes == {"exit0", "nonzero", "timeout", "notfound"}

\* Lower leaving the argument as it was written.
Lower_Identity(l) == l

\* str.lower() on the language arguments
Lower(l) ==
    CASE l = "Java"   -> "java"
      [] l = "C++"    -> "c++"
      [] l = "CPP"    -> "cpp"
      [] l = "Python" -> "python"
      [] l = "Ruby"   -> "ruby"
      [] OTHER        -> l

\* src/execution_mcp.py:44
supported_languages == {"python", "java", "javascript", "cpp", "c++"}

\* src/execution_mcp.py:109-111
Normalize(language) == IF language = "c++" THEN "cpp" ELSE language

\* Whether the language has a compile step (src/execution_mcp.py:47-79).
HasCompileStep(language) == language \in {"java", "cpp"}

\* src/execution_mcp.py:268-272: re.search(r'public\s+class\s+(\w+)', code)
extract_java_class_name(source) ==
    IF source.decl = "public class Foo" THEN "Foo" ELSE "None"

\* src/execution_mcp.py:165
ClassName(source) ==
    IF extract_java_class_name(source) = "None" THEN "Main"
    ELSE extract_java_class_name(source)

\* What is written to the source file: the text, wrapped in a class for Java
\* code without 'public class' (src/execution_mcp.py:168-169).
FileContent(language, source) ==
    [src |-> source.id,
     wrapped |-> language = "java" /\ source.decl # "public class Foo"]

\* Name of the source file (src/execution_mcp.py:141, 172, 210, 232).
SourceFile(language, source) ==
    CASE language = "python"     -> "program.py"
      [] language = "javascript" -> "program.js"
      [] language = "cpp"        -> "program.cpp"
      [] language = "java"       -> IF ClassName(source) = "Main" THEN "Main.java"
                                    ELSE "Foo.java"

\* The file the compiler writes, and the run step executes.
BinaryFile(language, source) ==
    CASE language = "cpp"  -> "program"
      [] language = "java" -> IF ClassName(source) = "Main" THEN "Main.class"
                              ELSE "Foo.class"

\* Commands (src/execution_mcp.py:149, 179, 194, 216, 240, 255).
CompileCommand(language) == IF language = "java" THEN "javac" ELSE "g++"

RunCommand(language) ==
    CASE language = "python"     -> "python"
      [] language = "javascript" -> "node"
      [] language = "java"       -> "java"
      [] language = "cpp"        -> "program"

\* A text of a result: a fixed prefix, then what a subprocess wrote on a stream
\* (or the message of the exception it raised) for the file it was given.
Text(prefix, what, cmd, content, input) ==
    [prefix |-> prefix, what |-> what, cmd |-> cmd, src |-> content.src,
     wrapped |-> content.wrapped, input |-> input]

NoContent == [src |-> "", wrapped |-> FALSE]

EmptyText == Text("", "", "", NoContent, "")

\* The five fields of a result.
Result(success, output, error, execution_time, language) ==
    [success |-> success, output |-> output, error |-> error,
     execution_time |-> execution_time, language |-> language]

NoResult == Result(FALSE, EmptyText, EmptyText, "", "")

\* UnsupportedResult reporting the time spent instead of 0.0.
UnsupportedResult_Elapsed(language) ==
    Result(FALSE, EmptyText,
           Text("Unsupported language: ", "", language, NoContent, ""),
           "elapsed", language)

\* src/execution_mcp.py:100-107
UnsupportedResult(language) ==
    Result(FALSE, EmptyText,
           Text("Unsupported language: ", "", language, NoContent, ""),
           "0.0", language)

\* ExceptionResult without the two fields execute_code adds to a result.
ExceptionResult_ThreeFields(outcome, cmd, language) ==
    [success |-> FALSE, output |-> EmptyText,
     error |-> Text("Execution error: ", outcome, cmd, NoContent, "")]

\* src/execution_mcp.py:129-136: the handler of every exception, a timeout
\* (subprocess.TimeoutExpired) and a missing toolchain alike.
ExceptionResult(outcome, cmd, language) ==
    Result(FALSE, EmptyText,
           Text("Execution error: ", outcome, cmd, NoContent, ""),
           "elapsed", language)

\* src/execution_mcp.py:185-190, 246-251
CompilationErrorResult(cmd, content, language) ==
    Result(FALSE, EmptyText,
           Text("Compilation error: ", "stderr", cmd, content, ""),
           "elapsed", language)

\* RunResult reporting success whatever the exit code.
RunResult_AlwaysSuccess(outcome, cmd, content, input, language) ==
    Result(TRUE,
           Text("", "stdout", cmd, content, input),
           Text("", "stderr", cmd, content, input),
           "elapsed", language)

\* src/execution_mcp.py:156-160, 201-205, 223-227, 262-266, then 125-127
RunResult(outcome, cmd, content, input, language) ==
    Result(outcome = "exit0",
           Text("", "stdout", cmd, content, input),
           Text("", "stderr", cmd, content, input),
           "elapsed", language)

\* What validate_syntax returns: the flag, the key of the text ("error" or
\* "message"), the text, and the language ("" when the key is absent).
Validation(valid, key, text, language) ==
    [valid |-> valid, key |-> key, text |-> text, language |-> language]

NoValidation == Validation(FALSE, "", EmptyText, "")

\* src/execution_mcp.py:421-425
UnsupportedValidation(language) ==
    Validation(FALSE, "error",
               Text("Unsupported language: ", "", language, NoContent, ""), "")

\* src/execution_mcp.py:428-433
NotAvailableValidation(language) ==
    Validation(TRUE, "message",
               Text("Syntax validation not available for ", "", language, NoContent, ""),
               language)

\* src/execution_mcp.py:445-449, 474-478
CompiledValidation(language) ==
    Validation(TRUE, "message",
               Text("code compiled successfully", "", language, NoContent, ""),
               language)

\* src/execution_mcp.py:438-449 (java, from the result of _execute_java) and
\* 467-478 (cpp): invalid when the error text holds 'Compilation error'.
ValidationOfResult(r, language) ==
    IF r.error.prefix = "Compilation error: "
    THEN Validation(FALSE, "error", r.error, language)
    ELSE CompiledValidation(language)

\* src/execution_mcp.py:480-487: the handler of every exception.
ExceptionValidation(outcome, cmd, language) ==
    Validation(FALSE, "error",
               Text("Syntax validation error: ", outcome, cmd, NoContent, ""),
               language)

IdleCall ==
    [op |-> "", pc |-> "idle", language |-> "",
     source |-> [id |-> "", decl |-> "none"],
     input_data |-> "", dir |-> "", steps |-> <<>>, result |-> NoResult,
     validation |-> NoValidation]
\* op: the tool called, "execute_code" or "validate_syntax"
\* steps: the subprocesses the call has started, each with its directory and
\* the way it ended

\* The call returns what _execute_<language> built.
Returned(cl, r) ==
    IF cl.op = "execute_code"
    THEN [cl EXCEPT !.pc = "returned", !.result = r]
    ELSE [cl EXCEPT !.pc = "returned",
                    !.validation = ValidationOfResult(r, cl.language)]

\* A subprocess raised (a timeout, a missing toolchain): the exception leaves
\* _execute_<language> and reaches the handler of the tool called.
Raised(cl, outcome, cmd) ==
    IF cl.op = "execute_code"
    THEN [cl EXCEPT !.pc = "returned",
                    !.result = ExceptionResult(outcome, cmd, cl.language)]
    ELSE [cl EXCEPT !.pc = "returned",
                    !.validation = ExceptionValidation(outcome, cmd, cl.language)]

\* File of a directory, NoContent when it does not exist.
ReadFile(ws, dir, name) ==
    IF dir \in DOMAIN ws /\ name \in DOMAIN ws[dir] THEN ws[dir][name] ELSE NoContent

WriteFile(ws, dir, name, content) ==
    [ws EXCEPT ![dir] = Put(ws[dir], name, content)]

\* FreshDirs handing out a directory that may be in use.
FreshDirs_Any(ws) == DirNames

\* tempfile.TemporaryDirectory(): a directory that does not exist yet.
FreshDirs(ws) == DirNames \ DOMAIN ws

\* Cleanup leaving the directory behind.
Cleanup_KeepsDirectory(ws, dir) == ws

\* Leaving the with block deletes the directory and everything in it.
Cleanup(ws, dir) == Pop(ws, dir)

\* execute_code up to the first subprocess (src/execution_mcp.py:98-123 and
\* 140-144, 165-175, 209-213, 231-236).
execute_code_call(c, code, lang, input_data) ==
          LET language == Lower(lang) IN
          IF language \notin supported_languages
          THEN /\ call' = [call EXCEPT ![c] =
                            [IdleCall EXCEPT !.op = "execute_code",
                                             !.pc = "returned",
                                             !.language = language,
                                             !.source = code,
                                             !.input_data = input_data,
                                             !.result = UnsupportedResult(language)]]
               /\ calls_done' = calls_done + 1
               /\ UNCHANGED workspaces
          ELSE \E dir \in FreshDirs(workspaces) :
               LET l == Normalize(language) IN
               /\ workspaces' = WriteFile(Put(workspaces, dir, EmptyDict), dir,
                                          SourceFile(l, code), FileContent(l, code))
               /\ call' = [call EXCEPT ![c] =
                            [IdleCall EXCEPT
                                !.op = "execute_code",
                                !.pc = IF HasCompileStep(l) THEN "compile" ELSE "run",
                                !.language = l,
                                !.source = code,
                                !.input_data = input_data,
                                !.dir = dir]]
               /\ UNCHANGED calls_done

\* A caller calls execute_code with some arguments.
execute_code_enter(c) ==
    /\ call[c].pc \in {"idle", "returned"}
    /\ calls_done + Cardinality({x \in Callers : call[x].pc \in {"compile", "run"}})
          < MaxCalls
    /\ \E code \in Sources, lang \in Languages, input_data \in Inputs :
          execute_code_call(c, code, lang, input_data)
    /\ UNCHANGED <<wfvars, clvars, tlvars, scvars>>

\* validate_syntax up to the first subprocess (src/execution_mcp.py:417-458,
\* and 165-175 through _execute_java(code, "")).
validate_syntax_call(c, code, lang) ==
          LET language == Normalize(Lower(lang))
              entered  == [IdleCall EXCEPT !.op = "validate_syntax",
                                           !.language = language,
                                           !.source = code]
          IN
          IF language \notin supported_languages \/ ~HasCompileStep(language)
          THEN /\ call' = [call EXCEPT ![c] =
                            [entered EXCEPT
                                !.pc = "returned",
                                !.validation =
                                    IF language \notin supported_languages
                                    THEN UnsupportedValidation(language)
                                    ELSE NotAvailableValidation(language)]]
               /\ calls_done' = calls_done + 1
               /\ UNCHANGED workspaces
          ELSE \E dir \in FreshDirs(workspaces) :
               /\ workspaces' = WriteFile(Put(workspaces, dir, EmptyDict), dir,
                                          SourceFile(language, code),
                                          FileContent(language, code))
               /\ call' = [call EXCEPT ![c] =
                            [entered EXCEPT !.pc = "compile", !.dir = dir]]
               /\ UNCHANGED calls_done

\* A caller calls validate_syntax with some arguments.
validate_syntax_enter(c) ==
    /\ call[c].pc \in {"idle", "returned"}
    /\ calls_done + Cardinality({x \in Callers : call[x].pc \in {"compile", "run"}})
          < MaxCalls
    /\ \E code \in Sources, lang \in Languages :
          validate_syntax_call(c, code, lang)
    /\ UNCHANGED <<wfvars, clvars, tlvars, scvars>>

\* The compile step of _execute_java and _execute_cpp
\* (src/execution_mcp.py:177-190, 238-251) and of validate_syntax for cpp
\* (src/execution_mcp.py:460-478), which returns once g++ has exited.
compile_step(c) ==
    /\ call[c].pc = "compile"
    /\ \E outcome \in SubprocessOutcomes :
          LET l       == call[c].language
              cmd     == CompileCommand(l)
              dir     == call[c].dir
              content == ReadFile(workspaces, dir, SourceFile(l, call[c].source))
              started == [call EXCEPT ![c].steps =
                             Append(@, [cmd |-> cmd, dir |-> dir, outcome |-> outcome])]
          IN
          /\ CASE outcome = "exit0" /\ call[c].op = "validate_syntax" /\ l = "cpp" ->
                    /\ workspaces' = Cleanup(workspaces, dir)
                    /\ call' = [started EXCEPT ![c].pc = "returned",
                                  ![c].validation = CompiledValidation(l)]
                    /\ calls_done' = calls_done + 1
               [] outcome = "exit0" /\ ~(call[c].op = "validate_syntax" /\ l = "cpp") ->
                    /\ workspaces' = WriteFile(workspaces, dir,
                                               BinaryFile(l, call[c].source), content)
                    /\ call' = [started EXCEPT ![c].pc = "run"]
                    /\ UNCHANGED calls_done
               [] outcome = "nonzero" ->
                    /\ workspaces' = Cleanup(workspaces, dir)
                    /\ call' = [started EXCEPT ![c] =
                                  Returned(@, CompilationErrorResult(cmd, content, l))]
                    /\ calls_done' = calls_done + 1
               [] OTHER ->
                    /\ workspaces' = Cleanup(workspaces, dir)
                    /\ call' = [started EXCEPT ![c] = Raised(@, outcome, cmd)]
                    /\ calls_done' = calls_done + 1
    /\ UNCHANGED <<wfvars, clvars, tlvars, scvars>>

\* The run step (src/execution_mcp.py:148-160, 192-205, 215-227, 253-266).
run_step(c) ==
    /\ call[c].pc = "run"
    /\ \E outcome \in SubprocessOutcomes :
          LET l       == call[c].language
              cmd     == RunCommand(l)
              dir     == call[c].dir
              file    == IF HasCompileStep(l) THEN BinaryFile(l, call[c].source)
                         ELSE SourceFile(l, call[c].source)
              content == ReadFile(workspaces, dir, file)
              started == [call EXCEPT ![c].steps =
                             Append(@, [cmd |-> cmd, dir |-> dir, outcome |-> outcome])]
          IN
          /\ workspaces' = Cleanup(workspaces, dir)
          /\ call' = [started EXCEPT ![c] =
                        IF outcome \in {"exit0", "nonzero"}
                        THEN Returned(@, RunResult(outcome, cmd, content,
                                                   call[c].input_data, l))
                        ELSE Raised(@, outcome, cmd)]
          /\ calls_done' = calls_done + 1
    /\ UNCHANGED <<wfvars, clvars, tlvars, scvars>>

(***************************************************************************)
(* MCPCodeExecutor.batch_execute (src/execution_mcp.py:279-308)            *)
(***************************************************************************)
\* The thread that calls batch_execute.
BatchCaller == "a"

\* Elements of the list: something that is not a dict, a dict without the
\* 'language' key, and dicts with 'code' and 'language' ('input' is optional
\* and defaults to '').
NoSource == [id |-> "", decl |-> "none"]

Snippets ==
    { [kind |-> "not a dict", code |-> NoSource, language |-> "", input |-> ""],
      [kind |-> "no language", code |-> [id |-> "src1", decl |-> "none"],
       language |-> "", input |-> ""],
      [kind |-> "dict", code |-> [id |-> "src1", decl |-> "none"],
       language |-> "python", input |-> ""],
      [kind |-> "dict", code |-> [id |-> "src2", decl |-> "public class Foo"],
       language |-> "C++", input |-> "7"],
      [kind |-> "dict", code |-> [id |-> "src1", decl |-> "none"],
       language |-> "ruby", input |-> ""] }

\* The lists of at most MaxSnippets elements.
RECURSIVE SnippetLists(_)
SnippetLists(n) ==
    IF n = 0 THEN {<<>>}
    ELSE SnippetLists(n - 1)
            \cup {Append(l, x) : l \in {m \in SnippetLists(n - 1) : Len(m) = n - 1},
                                 x \in Snippets}

\* src/execution_mcp.py:292
InvalidSnippet(snippet) == snippet.kind # "dict"

\* src/execution_mcp.py:293-299
InvalidSnippetResult ==
    Result(FALSE, EmptyText,
           Text("Invalid snippet format. Required keys: code, language", "", "",
                NoContent, ""),
           "0.0", "unknown")

\* Key giving every snippet the key of the first.
Key_Constant(i) == <<"snippet_", 0>>

\* src/execution_mcp.py:293, 306: f'snippet_{i}'
Key(i) == <<"snippet_", i>>

\* One turn of the loop up to the call of execute_code, or the return after
\* the last turn (src/execution_mcp.py:291-308).
batch_execute_loop ==
    /\ batch.pc = "loop"
    /\ IF batch.i = Len(batch.snippets)
       THEN /\ batch' = [batch EXCEPT !.pc = "returned"]
            /\ UNCHANGED exvars
       ELSE LET snippet == batch.snippets[batch.i + 1] IN
            IF InvalidSnippet(snippet)
            THEN /\ batch' = [batch EXCEPT
                                !.results = Put(@, Key(batch.i), InvalidSnippetResult),
                                !.i = @ + 1]
                 /\ UNCHANGED exvars
            ELSE /\ execute_code_call(BatchCaller, snippet.code, snippet.language,
                                      snippet.input)
                 /\ batch' = [batch EXCEPT !.pc = "calling"]
    /\ UNCHANGED <<wfvars, clvars, tlvars, spelling>>

\* execute_code has returned: its result is stored under the snippet's key
\* (src/execution_mcp.py:306).
batch_execute_store ==
    /\ batch.pc = "calling"
    /\ call[BatchCaller].pc = "returned"
    /\ batch' = [batch EXCEPT
                    !.results = Put(@, Key(batch.i), call[BatchCaller].result),
                    !.i = @ + 1,
                    !.pc = "loop"]
    /\ UNCHANGED <<wfvars, exvars, clvars, tlvars, spelling>>

(***************************************************************************)
(* The two tools called with a language identifier written in some way     *)
(* (src/execution_mcp.py:98-111, 417-425).                                 *)
(***************************************************************************)
\* Ways of writing the language argument.
Spellings == {"python", "Python", "cpp", "CPP", "c++", "C++", "ruby", "Ruby"}

\* The code and the input the callers pass with it.
SpelledSource == [id |-> "src1", decl |-> "none"]

SpelledInput == "7"

\* execute_code(code, spelling, input)
execute_code_spelled(c) ==
    /\ call[c].pc = "idle"
    /\ execute_code_call(c, SpelledSource, spelling[c], SpelledInput)
    /\ UNCHANGED <<wfvars, clvars, tlvars, scvars>>

\* validate_syntax(code, spelling)
validate_syntax_spelled(c) ==
    /\ call[c].pc = "idle"
    /\ validate_syntax_call(c, SpelledSource, spelling[c])
    /\ UNCHANGED <<wfvars, clvars, tlvars, scvars>>

\* A call of batch_execute: where it is, the list it was given, the index of
\* the loop and the results dictionary.
NoBatch == [pc |-> "idle", snippets |-> <<>>, i |-> 0, results |-> EmptyDict]

ExecInit ==
    /\ call = [c \in Callers |-> IdleCall]
    /\ workspaces = EmptyDict
    /\ calls_done = 0

\* No call of analyze_execution_result, no caller of get_interpreter_tools.
ClassifyIdle == text_in = {} /\ verdict = NoVerdict

ToolsIdle == getter = <<>>

\* No call of batch_execute, and no identifier handed to the callers.
NoScript == batch = NoBatch /\ spelling = <<>>

Init == WorkflowInit /\ ExecInit /\ ClassifyIdle /\ ToolsIdle /\ NoScript

Next ==
    \/ CodingAgent_process
    \/ CodeExecutorAgent_process
    \/ TestingAgent_process

Spec == Init /\ [][Next]_vars

\* Every external call returns or times out, so the enabled agent runs.
FairSpec == Spec /\ WF_vars(Next)

ExecNext ==
    \E c \in Callers :
        \/ execute_code_enter(c)
        \/ validate_syntax_enter(c)
        \/ compile_step(c)
        \/ run_step(c)

\* The executor is exercised beside one idle workflow.
ExecStart == Init /\ max_retries = MaxRetriesBound

ExecSpec == ExecStart /\ [][ExecNext]_vars

\* The classifier is applied to one text beside an idle workflow and executor.
ClassifyStart ==
    /\ WorkflowInit /\ max_retries = MaxRetriesBound
    /\ ExecInit /\ ToolsIdle /\ NoScript
    /\ text_in \in Texts
    /\ verdict = NoVerdict

ClassifyNext == analyze

\* Three coroutines call get_interpreter_tools of one agent, again and again.
ToolsStart ==
    /\ WorkflowInit /\ max_retries = MaxRetriesBound
    /\ ExecInit /\ ClassifyIdle /\ NoScript
    /\ getter = [c \in Runners |-> IdleGetter]

ToolsNext ==
    \E c \in Runners :
        \/ get_interpreter_tools_begin(c)
        \/ get_interpreter_tools_end(c)

ToolsSpec == ToolsStart /\ [][ToolsNext]_vars

\* Each caller calls one of the two tools once, with its own spelling of the
\* language.
AliasStart ==
    /\ WorkflowInit /\ max_retries = MaxRetriesBound
    /\ ExecInit /\ ClassifyIdle /\ ToolsIdle
    /\ batch = NoBatch
    /\ spelling \in [Callers -> Spellings]

AliasNext ==
    \E c \in Callers :
        \/ execute_code_spelled(c)
        \/ validate_syntax_spelled(c)
        \/ compile_step(c)
        \/ run_step(c)

AliasSpec == AliasStart /\ [][AliasNext]_vars

\* One call of batch_execute on a list of at most MaxSnippets elements.
BatchStart ==
    /\ WorkflowInit /\ max_retries = MaxRetriesBound
    /\ ExecInit /\ ClassifyIdle /\ ToolsIdle
    /\ spelling = <<>>
    /\ \E l \in SnippetLists(MaxSnippets) :
          batch = [pc |-> "loop", snippets |-> l, i |-> 0, results |-> EmptyDict]

BatchNext ==
    \/ batch_execute_loop
    \/ compile_step(BatchCaller)
    \/ run_step(BatchCaller)
    \/ batch_execute_store

BatchSpec == BatchStart /\ [][BatchNext]_vars

ClassifySpec == ClassifyStart /\ [][ClassifyNext]_vars

(***************************************************************************)
(* Reading the run's history off the log.                                  *)
(***************************************************************************)
\* Text of the last entry an agent wrote, "" when it wrote none.
RECURSIVE LastBy(_, _)
LastBy(log, name) ==
    IF log = <<>> THEN ""
    ELSE IF log[Len(log)].agent = name THEN log[Len(log)].text
    ELSE LastBy(SubSeq(log, 1, Len(log) - 1), name)

\* Cycles evaluated so far: one TestingAgent entry per cycle.
Cycles == CountBy(messages, "TestingAgent")

execution_status_now == Get(data, "execution_status", "failure")

Terminal == node = "END"

\* The text-generation call of the cycle in progress failed.
GenerationFailedThisCycle ==
    /\ node \in {"execute", "test"}
    /\ LastBy(messages, "CodingAgent") = "Code generation failed"

(***************************************************************************)
(* Claims about the workflow.                                              *)
(***************************************************************************)

\* C1: a run in which every execution is judged a failure ends after exactly
\* max_retries failed generate-execute-evaluate cycles.
C1_EndsAfterExactlyNFailures ==
    (Terminal /\ execution_status_now = "failure") => Cycles = max_retries

\* C2: in every terminal state retry_count <= max_retries, and the Evaluator
\* does not send the run back to generation once retry_count has reached
\* max_retries.
C2_CountWithinBound ==
    /\ Terminal => retry_count <= max_retries
    /\ (node = "code" /\ Cycles >= 1) => retry_count < max_retries

\* C3: every run eventually reaches the terminal state.
C3_Terminates == <>Terminal

C3_Witness ==
    /\ Terminal
    /\ Cycles >= 2
    /\ LastBy(messages, "CodingAgent") = "Code generation failed"

\* C4: when the Evaluator reads execution_status = success it ends the run and
\* leaves retry_count unchanged; a run whose first cycle is judged a success is
\* over after that one cycle with retry_count at its initial value.
C4_SuccessEndsRun ==
    /\ [][(node = "test" /\ execution_status_now = "success")
            => (node' = "END" /\ current_state' = "end" /\ retry_count' = retry_count)]_vars
    /\ []((Len(messages) >= 3 /\ messages[3].text = "Workflow completed successfully")
            => (Terminal /\ Len(messages) = 3 /\ retry_count = InitialRetryCount))

C4_Witness ==
    /\ Terminal
    /\ execution_status_now = "success"
    /\ Len(messages) = 3
    /\ retry_count = InitialRetryCount

\* C5: in a cycle where the text-generation call fails the next agent to run is
\* the Evaluator: the CodeRunner does not run in that cycle and the recorded
\* generation error reaches the Evaluator.
C5_GenerationFailureSkipsRunner ==
    GenerationFailedThisCycle
        => /\ node = "test"
           /\ messages[Len(messages)].agent = "CodingAgent"
           /\ Get(data, "error_message", UnknownError) = GenerationError

\* C6: a cycle in which the text-generation call fails is counted as a failed
\* attempt: the Evaluator increments retry_count by one and the cycle is not
\* judged a success.
C6_GenerationFailureCounted ==
    [][(node = "test" /\ GenerationFailedThisCycle)
        => (retry_count' = retry_count + 1 /\ execution_status_now = "failure")]_vars

\* C7: the prompt of every CodeGenerator invocation that follows a failed
\* attempt carries that attempt's error_message; the first prompt of a run
\* carries no error context.
C7_RetryPromptCarriesError ==
    [][node = "code"
        => prompt'.error_context =
              IF Cycles >= 1
              THEN [has_error |-> TRUE, error |-> Get(data, "error_message", UnknownError)]
              ELSE NoErrorContext]_vars

\* C8: a run ends without success only by exhausting its attempts: a terminal
\* state has execution_status = success, or execution_status = failure with
\* retry_count having reached max_retries after at least max_retries failed
\* cycles.
C8_FailureEndsOnlyByExhaustion ==
    Terminal =>
        \/ execution_status_now = "success"
        \/ /\ execution_status_now = "failure"
           /\ retry_count >= max_retries
           /\ Cycles >= max_retries

C8_Witness ==
    /\ Terminal
    /\ execution_status_now = "failure"
    /\ max_retries >= 2

\* C9: once current_state is 'end' no agent runs and no field of the workflow
\* state changes.
C9_EndIsAbsorbing == [][current_state = "end" => wfvars' = wfvars]_vars

C9_Witness ==
    /\ current_state = "end"
    /\ Terminal
    /\ Len(messages) >= 3

(***************************************************************************)
(* Claims about the executor.                                              *)
(***************************************************************************)
\* The call of caller c has returned after its compile step ended the given way.
CompileEnded(c, outcomes) ==
    /\ call[c].pc = "returned"
    /\ call[c].language \in {"java", "cpp"}
    /\ Len(call[c].steps) >= 1
    /\ call[c].steps[1].cmd = CompileCommand(call[c].language)
    /\ call[c].steps[1].outcome \in outcomes

\* C10: for java and cpp, when the compile step exits non-zero or times out
\* the run step is not invoked, and execute_code returns a failure with empty
\* output whose error is the compiler's diagnostics.
C10_CompileFailureReturnsDiagnostics ==
    \A c \in Callers :
        CompileEnded(c, {"nonzero", "timeout"})
            => /\ Len(call[c].steps) = 1
               /\ call[c].result.success = FALSE
               /\ call[c].result.output = EmptyText
               /\ call[c].result.error =
                      Text("Compilation error: ", "stderr",
                           CompileCommand(call[c].language),
                           FileContent(call[c].language, call[c].source), "")

\* What the code does guarantee there: no run step, a failure, empty output.
CompileFailureSkipsRun ==
    \A c \in Callers :
        CompileEnded(c, {"nonzero", "timeout", "notfound"})
            => /\ Len(call[c].steps) = 1
               /\ call[c].result.success = FALSE
               /\ call[c].result.output = EmptyText

(***************************************************************************)
(* validate_syntax                                                         *)
(***************************************************************************)
\* C11: validate_syntax never executes the submitted program: a call starts no
\* subprocess for an interpreted language and only the compiler for java and
\* cpp, and the flag it returns is the outcome of the compile step alone.
C11_ValidateNeverExecutes ==
    \A c \in Callers :
        call[c].op = "validate_syntax" =>
            /\ call[c].pc # "run"
            /\ \A i \in 1..Len(call[c].steps) :
                   call[c].steps[i].cmd = CompileCommand(call[c].language)
            /\ ~HasCompileStep(call[c].language) => call[c].steps = <<>>
            /\ (call[c].pc = "returned" /\ HasCompileStep(call[c].language)) =>
                   call[c].validation.valid = (call[c].steps[1].outcome = "exit0")

(***************************************************************************)
(* execute_code: its exits                                                 *)
(***************************************************************************)
\* The calls in progress, and the last subprocess a call started.
InProgress(c) == call[c].pc \in {"compile", "run"}

LastStep(c) == call[c].steps[Len(call[c].steps)]

\* The call of execute_code has returned after its run step came to an end
\* in one of the given ways.
RunEnded(c, outcomes) ==
    /\ call[c].op = "execute_code"
    /\ call[c].pc = "returned"
    /\ call[c].steps # <<>>
    /\ LastStep(c).cmd = RunCommand(call[c].language)
    /\ LastStep(c).outcome \in outcomes

\* C12: execute_code called with an unsupported language returns a failure
\* (success false, empty output, an error naming the language, execution time
\* 0.0) and has created no scratch directory and started no subprocess.
C12_UnsupportedLanguageFails ==
    \A c \in Callers :
        (call[c].op = "execute_code" /\ call[c].language \notin supported_languages) =>
            /\ call[c].pc = "returned"
            /\ call[c].result.success = FALSE
            /\ call[c].result.output = EmptyText
            /\ call[c].result.error.prefix = "Unsupported language: "
            /\ call[c].result.error.cmd = call[c].language
            /\ call[c].result.execution_time = "0.0"
            /\ call[c].dir = ""
            /\ call[c].steps = <<>>

C12_Witness ==
    \E c \in Callers :
        /\ call[c].op = "execute_code"
        /\ call[c].pc = "returned"
        /\ call[c].language = "ruby"
        /\ workspaces = EmptyDict

\* C13: a compile or run step that times out is reported as a failure of its
\* own kind: its result is not the one the generic exception handler builds
\* for a missing toolchain.
C13_TimeoutIsDistinctFailure ==
    \A c \in Callers :
        ( /\ call[c].op = "execute_code"
          /\ call[c].pc = "returned"
          /\ call[c].steps # <<>>
          /\ LastStep(c).outcome = "timeout" ) =>
            call[c].result.error.prefix #
                ExceptionResult("notfound", LastStep(c).cmd, call[c].language).error.prefix

\* C14: a scratch directory exists only while the call that created it is
\* between its creation and its return: when a call has returned, by whatever
\* exit, its directory is gone, and with no call in progress none remains.
C14_NoWorkspaceOutlivesItsCall ==
    \A dir \in DOMAIN workspaces :
        \E c \in Callers : InProgress(c) /\ call[c].dir = dir

C14_Witness ==
    /\ workspaces = EmptyDict
    /\ \E c \in Callers :
          /\ call[c].pc = "returned"
          /\ call[c].steps # <<>>
          /\ LastStep(c).outcome = "timeout"
    /\ \E c \in Callers :
          /\ call[c].op = "validate_syntax"
          /\ call[c].pc = "returned"
          /\ call[c].steps # <<>>

\* C15: calls in progress at the same time do not interfere: they have
\* different directories, every subprocess of a call works in the call's own
\* directory, the source file there is the one the call wrote, and the result
\* returned is that of the call's own source and input.
C15_CallsDoNotInterfere ==
    /\ \A c, d \in Callers :
           (c # d /\ InProgress(c) /\ InProgress(d)) => call[c].dir # call[d].dir
    /\ \A c \in Callers :
           /\ \A i \in 1..Len(call[c].steps) : call[c].steps[i].dir = call[c].dir
           /\ InProgress(c) =>
                  ReadFile(workspaces, call[c].dir,
                           SourceFile(call[c].language, call[c].source))
                      = FileContent(call[c].language, call[c].source)
           /\ RunEnded(c, {"exit0", "nonzero"}) =>
                  /\ call[c].result.output.src = call[c].source.id
                  /\ call[c].result.output.input = call[c].input_data
                  /\ call[c].result.error.src = call[c].source.id

\* Two calls with the same language and file names and different sources have
\* both compiled and are about to run.
C15_Witness ==
    \E c, d \in Callers :
        /\ c # d
        /\ call[c].op = "execute_code" /\ call[d].op = "execute_code"
        /\ call[c].pc = "run" /\ call[d].pc = "run"
        /\ call[c].language = "cpp" /\ call[d].language = "cpp"
        /\ BinaryFile("cpp", call[c].source) = BinaryFile("cpp", call[d].source)
        /\ call[c].source.id # call[d].source.id

\* C16: when the run step is reached and the process exits within the timeout,
\* success is true exactly when the exit code is zero, output is the process's
\* standard output and error its standard error.
C16_RunResultMirrorsProcess ==
    \A c \in Callers :
        RunEnded(c, {"exit0", "nonzero"}) =>
            /\ call[c].result.success = (LastStep(c).outcome = "exit0")
            /\ call[c].result.output.prefix = ""
            /\ call[c].result.output.what = "stdout"
            /\ call[c].result.output.cmd = LastStep(c).cmd
            /\ call[c].result.error.prefix = ""
            /\ call[c].result.error.what = "stderr"
            /\ call[c].result.error.cmd = LastStep(c).cmd

C16_Witness ==
    \E c \in Callers :
        /\ RunEnded(c, {"nonzero"})
        /\ call[c].language = "cpp"
        /\ call[c].result.success = FALSE

(***************************************************************************)
(* analyze_execution_result                                                *)
(***************************************************************************)
HasDefiniteError(text) == \E e \in definite_errors : Occurs(e, text)

HasSuccessPhrase(text) == \E s \in success_indicators : Occurs(s, text)

HasRefusalPhrase(text) == \E r \in {"sorry", "unable", "cannot"} : Occurs(r, text)

\* C17: a text that contains a definite-error token is classified as failure
\* whatever else it contains, a success phrase included.
C17_ErrorTokenMeansFailure ==
    (verdict.returned /\ HasDefiniteError(text_in)) => ~verdict.success

C17_Witness ==
    /\ verdict.returned
    /\ "Traceback (most recent call last)" \in text_in
    /\ "Success" \in text_in
    /\ ~verdict.success

\* C18: a text without a definite-error token is a success if it has a success
\* phrase, otherwise a failure if it has one of 'sorry', 'unable', 'cannot',
\* otherwise a success.
C18_SuccessThenRefusalThenDefault ==
    (verdict.returned /\ ~HasDefiniteError(text_in)) =>
        verdict.success = (HasSuccessPhrase(text_in) \/ ~HasRefusalPhrase(text_in))

\* A refusal phrase beside a success phrase: the success phrase wins.
C18_Witness ==
    /\ verdict.returned
    /\ "sorry" \in text_in
    /\ "passed" \in text_in
    /\ ~HasDefiniteError(text_in)
    /\ verdict.success

(***************************************************************************)
(* get_interpreter_tools                                                   *)
(***************************************************************************)
CouldNotConnect ==
    Str("Could not connect to code execution server after multiple attempts", {})

\* C19: over the CodeRunner invocations of a run the server is contacted for a
\* session at most _max_connection_attempts times, and once that many attempts
\* have been made without a handle being cached, an invocation does not
\* contact the server and reports the connection failure.
C19_ConnectionAttemptsBounded ==
    /\ [](server_contacts <= MaxConnectionAttempts)
    /\ [][ ( /\ node = "execute"
             /\ tools_cache = "None"
             /\ connection_attempts >= MaxConnectionAttempts ) =>
               /\ server_contacts' = server_contacts
               /\ tools_cache' = "None"
               /\ Get(data', "execution_status", "") = "failure"
               /\ Get(data', "error_message", UnknownError) = CouldNotConnect ]_vars

\* Three negotiations failed and a fourth invocation has reported the failure.
C19_Witness ==
    /\ tools_cache = "None"
    /\ server_contacts = MaxConnectionAttempts
    /\ connection_attempts > MaxConnectionAttempts
    /\ Get(data, "error_message", UnknownError) = CouldNotConnect

\* C20: with callers of get_interpreter_tools interleaved, the handle is
\* initialised at most once: a cached handle is never replaced, and no caller
\* is negotiating a session once a handle is cached.
C20_HandleInitialisedOnce ==
    [][ /\ tools_cache # "None" => tools_cache' = tools_cache
        /\ \A c \in Runners :
               getter'[c].pc = "negotiating" => tools_cache' = "None" ]_vars

(***************************************************************************)
(* Runs on one WorkflowManager                                             *)
(***************************************************************************)
\* C21: the connection attempts available to a run do not depend on the
\* failures of another run: the first call of get_interpreter_tools a runner
\* makes while no handle is cached negotiates a session, whatever the other
\* runners have done before.
C21_RunsHaveTheirOwnBudget ==
    [][ \A c \in Runners :
            ( /\ getter[c].pc = "idle"
              /\ getter'[c].pc # "idle"
              /\ tools_cache = "None" ) =>
                getter'[c].pc = "negotiating" ]_vars

(***************************************************************************)
(* batch_execute                                                           *)
(***************************************************************************)
\* What execute_code returns for the snippet alone, when its compile step and
\* its run step end as given.
ExecuteAlone(snippet, compiled, ran) ==
    LET language == Lower(snippet.language)
        l        == Normalize(language)
        content  == FileContent(l, snippet.code)
        run      == IF ran \in {"exit0", "nonzero"}
                    THEN RunResult(ran, RunCommand(l), content, snippet.input, l)
                    ELSE ExceptionResult(ran, RunCommand(l), l)
    IN
    IF language \notin supported_languages THEN UnsupportedResult(language)
    ELSE IF ~HasCompileStep(l) \/ compiled = "exit0" THEN run
    ELSE IF compiled = "nonzero"
    THEN CompilationErrorResult(CompileCommand(l), content, l)
    ELSE ExceptionResult(compiled, CompileCommand(l), l)

ResultsAlone(snippet) ==
    {ExecuteAlone(snippet, compiled, ran) :
        compiled \in SubprocessOutcomes, ran \in SubprocessOutcomes}

\* C22: batch_execute stores one result per snippet handled, under the key
\* snippet_i of the snippet's position: the invalid-format failure for a
\* malformed snippet, otherwise a result execute_code returns for the snippet
\* alone; whatever the earlier snippets did, the call returns with a result
\* for every position.
C22_BatchKeepsEveryPosition ==
    batch.pc # "idle" =>
        /\ DOMAIN batch.results = {Key(k) : k \in 0..(batch.i - 1)}
        /\ batch.pc = "returned" => batch.i = Len(batch.snippets)
        /\ \A k \in 0..(batch.i - 1) :
               /\ Key(k) \in DOMAIN batch.results
               /\ IF InvalidSnippet(batch.snippets[k + 1])
                  THEN batch.results[Key(k)] = InvalidSnippetResult
                  ELSE batch.results[Key(k)] \in ResultsAlone(batch.snippets[k + 1])

\* A snippet that timed out is followed by one that ran.
C22_Witness ==
    /\ batch.pc = "returned"
    /\ Len(batch.snippets) = 2
    /\ batch.results[Key(0)].error.what = "timeout"
    /\ batch.results[Key(1)].success

(***************************************************************************)
(* The CodeRunner and the result bag                                       *)
(***************************************************************************)
TimedOut == Str("Code execution timed out after 45 seconds", {})

\* The last entry of a log is the CodeRunner's report of the outer timeout.
EndsWithTimeout(log) ==
    /\ log # <<>>
    /\ log[Len(log)] = [agent |-> "CodeExecutorAgent", text |-> "Execution failed: Timeout"]

\* C23: when the execution call exceeds the outer timeout, the CodeRunner
\* records execution_status = failure and the timeout error message and hands
\* over to the Evaluator without running again in that cycle, and the
\* Evaluator counts the cycle as exactly one failed attempt.
C23_OuterTimeoutIsOneFailure ==
    /\ [][ (node = "execute" /\ EndsWithTimeout(messages')) =>
               /\ node' = "test"
               /\ Get(data', "execution_status", "") = "failure"
               /\ Get(data', "error_message", UnknownError) = TimedOut ]_vars
    /\ [][ (node = "test" /\ EndsWithTimeout(messages)) =>
               /\ retry_count' = retry_count + 1
               /\ node' # "execute" ]_vars

\* The Evaluator has counted a cycle that timed out.
C23_Witness ==
    /\ Len(messages) >= 2
    /\ EndsWithTimeout(SubSeq(messages, 1, Len(messages) - 1))
    /\ messages[Len(messages)].agent = "TestingAgent"
    /\ retry_count = 1

\* A string of the program that is not empty.
NonEmpty(str) == str[1] # "" \/ str[2] # {}

\* C24: every invocation of the CodeRunner, on every path, leaves
\* execution_status set to 'success' or 'failure' and current_state set to
\* 'test', and on a failure leaves a non-empty error_message.
C24_RunnerAlwaysReports ==
    [][ node = "execute" =>
            /\ "execution_status" \in DOMAIN data'
            /\ data'["execution_status"] \in {"success", "failure"}
            /\ current_state' = "test"
            /\ data'["execution_status"] = "failure" =>
                   /\ "error_message" \in DOMAIN data'
                   /\ NonEmpty(data'["error_message"]) ]_vars

\* The CodeRunner has reported a missing 'code' key.
C24_Witness ==
    /\ node = "test"
    /\ "code" \notin DOMAIN data
    /\ LastBy(messages, "CodeExecutorAgent") = "Execution system error"
    /\ Get(data, "error_message", UnknownError) = Str("Execution system error: ", {"'code'"})

\* C25: whenever execution_status is success, the result bag holds the code
\* that was executed and a result, and holds no error_message.
C25_SuccessHoldsNoError ==
    execution_status_now = "success" =>
        /\ "code" \in DOMAIN data
        /\ data["code"] = execution_request
        /\ "result" \in DOMAIN data
        /\ "error_message" \notin DOMAIN data

\* A success after an attempt that failed and left an error message.
C25_Witness ==
    /\ execution_status_now = "success"
    /\ retry_count >= 1
    /\ "error_message" \notin DOMAIN data

(***************************************************************************)
(* The log and the frame of each agent                                     *)
(***************************************************************************)
\* The agent a node of the graph runs.
AgentAt(n) ==
    CASE n = "code"    -> "CodingAgent"
      [] n = "execute" -> "CodeExecutorAgent"
      [] n = "test"    -> "TestingAgent"
      [] OTHER         -> ""

\* C26: the log only grows: every agent invocation appends exactly one entry,
\* attributed to the agent that ran, and leaves the earlier entries as they
\* were and where they were.
C26_LogIsAppendOnly ==
    [][ /\ Len(messages') = Len(messages) + 1
        /\ SubSeq(messages', 1, Len(messages)) = messages
        /\ messages'[Len(messages')].agent = AgentAt(node) ]_vars

\* Two cycles have been logged.
C26_Witness ==
    /\ Len(messages) = 6
    /\ messages[1].agent = "CodingAgent"
    /\ messages[2].agent = "CodeExecutorAgent"
    /\ messages[3].agent = "TestingAgent"
    /\ messages[6].agent = "TestingAgent"

\* C27: user_message and max_retries never change; retry_count changes only
\* in the Evaluator, by exactly one and only when execution_status is
\* failure; the Evaluator leaves the result bag unchanged.
C27_FrameOfTheAgents ==
    [][ /\ user_message' = user_message
        /\ max_retries' = max_retries
        /\ retry_count' # retry_count =>
               /\ node = "test"
               /\ retry_count' = retry_count + 1
               /\ Get(data, "execution_status", "") = "failure"
        /\ node \in {"code", "execute"} => retry_count' = retry_count
        /\ node = "test" => data' = data ]_vars

\* The Evaluator has counted two failures and left the bag of the second.
C27_Witness ==
    /\ retry_count = 2
    /\ node = "code"
    /\ execution_status_now = "failure"
    /\ "error_message" \in DOMAIN data

(***************************************************************************)
(* Language identifiers                                                    *)
(***************************************************************************)
\* The language an identifier stands for when letter case is ignored and
\* 'c++' is another name of 'cpp'.
Denotes(identifier) ==
    CASE identifier \in {"python", "Python"}        -> "python"
      [] identifier \in {"cpp", "CPP", "c++", "C++"} -> "cpp"
      [] identifier \in {"ruby", "Ruby"}            -> "ruby"

\* The call was turned down for its language.
Rejected(c) ==
    IF call[c].op = "execute_code"
    THEN call[c].result.error.prefix = "Unsupported language: "
    ELSE call[c].validation.text.prefix = "Unsupported language: "

\* The commands a call started and the way each ended.
Commands(c) == [i \in 1..Len(call[c].steps) |-> call[c].steps[i].cmd]

Outcomes(c) == [i \in 1..Len(call[c].steps) |-> call[c].steps[i].outcome]

\* C28: identifiers that differ in letter case only, and 'c++' and 'cpp', are
\* the same language: both tools accept an identifier exactly when it stands
\* for a supported language, and two calls of execute_code whose identifiers
\* stand for the same language start the same commands and, when these end
\* the same way, return the same result, with language 'cpp' for C++.
C28_IdentifiersAreNormalised ==
    \A c, d \in Callers :
        (call[c].pc = "returned" /\ call[d].pc = "returned") =>
            /\ Rejected(c) <=> Denotes(spelling[c]) \notin {"python", "cpp"}
            /\ Denotes(spelling[c]) = Denotes(spelling[d]) =>
                   /\ Rejected(c) <=> Rejected(d)
                   /\ ( /\ call[c].op = "execute_code" /\ call[d].op = "execute_code"
                        /\ Outcomes(c) = Outcomes(d) ) =>
                          /\ Commands(c) = Commands(d)
                          /\ call[c].result = call[d].result
            /\ (call[c].op = "execute_code" /\ Denotes(spelling[c]) = "cpp") =>
                   call[c].result.language = "cpp"

\* 'C++' and 'cpp' have both been compiled and run by execute_code, and
\* validate_syntax has accepted 'CPP'.
C28_Witness ==
    \E c, d \in Callers :
        /\ spelling[c] = "C++" /\ spelling[d] = "cpp"
        /\ call[c].op = "execute_code" /\ call[d].op = "execute_code"
        /\ call[c].pc = "returned" /\ call[d].pc = "returned"
        /\ Outcomes(c) = <<"exit0", "exit0">>
        /\ Outcomes(d) = <<"exit0", "exit0">>
        /\ call[c].result = call[d].result

(***************************************************************************)
(* execute_code: the shape of what it returns                              *)
(***************************************************************************)
ResultFields == {"success", "output", "error", "execution_time", "language"}

\* C29: for a supported language, however the compile or run subprocess
\* ended (zero or non-zero exit, timeout, toolchain not found), execute_code
\* has returned a result with the five fields success, output, error,
\* execution_time and language, a failure unless the run exited with zero.
C29_AlwaysReturnsFiveFields ==
    \A c \in Callers :
        (call[c].op = "execute_code" /\ call[c].steps # <<>> /\ ~InProgress(c)) =>
            /\ call[c].pc = "returned"
            /\ DOMAIN call[c].result = ResultFields
            /\ call[c].result.language = call[c].language
            /\ call[c].result.execution_time = "elapsed"
            /\ call[c].result.success = RunEnded(c, {"exit0"})

\* The compiler was not installed: the call has returned a failure.
C29_Witness ==
    \E c \in Callers :
        /\ call[c].op = "execute_code"
        /\ call[c].pc = "returned"
        /\ call[c].language = "java"
        /\ Outcomes(c) = <<"notfound">>
        /\ DOMAIN call[c].result = ResultFields
        /\ ~call[c].result.success

(***************************************************************************)
(* The entries of definite_errors as they are written                      *)
(***************************************************************************)
\* The two literals 'internal error' and 'fail' (src/agent.py:121-122) that
\* occur in a lower-cased phrase.
WrittenFragments(p) ==
    CASE p = "execution failed"   -> {"fail"}
      [] p = "internal error"     -> {"internal error"}
      [] p = "internal errorfail" -> {"internal error", "fail"}
      [] p = "failure"            -> {"fail"}
      [] OTHER                    -> {}

\* C30: a response that contains 'fail' or 'internal error' is classified as
\* failure, whatever else it contains or does not contain.
C30_WrittenEntriesAreTokens ==
    (verdict.returned /\ \E p \in text_in : WrittenFragments(p) # {}) =>
        ~verdict.success

====
